---------------------------- MODULE Spec2Model ----------------------------
(***************************************************************************)
(* A model of the documentation RAG backend (src/backend): the Markdown    *)
(* chunker, the ingestion run, the vector-store search, the retriever and  *)
(* the chat message log.                                                   *)
(*                                                                         *)
(* Text is a sequence of tokens.  The tokens "#", " " and "\n" are single  *)
(* characters; every other token is a run of characters that are neither   *)
(* whitespace nor Markdown markup (a word), with the width Width gives it. *)
(* len(), strip(), split(), re.split and re.sub are computed token by      *)
(* token, which is character by character for the three special tokens.    *)
(***************************************************************************)
EXTENDS Integers, Sequences, FiniteSets, TLC

VARIABLES
    \* ---- chunk_by_headers(content, doc_path, title) under settings
    content, doc_path, title, chunk_size, chunk_overlap, chunks, cpc,
    \* ---- the Chroma collection "documentation": the records it holds
    collection,
    \* ---- Retriever.query(question, model_key, conversation_history)
    qpc, model_key, groq_api_key, store_outcome, retrieved_chunks, provider,
    qresult, qerror, calls,
    \* ---- ChatDatabase: the two tables, the clock of CURRENT_TIMESTAMP (in
    \* seconds) and the last answer of get_recent_messages
    sessions, messages, now, recent, db_error,
    \* ---- ingest_docs(vector_store): the files under settings.docs_path, and
    \* the run
    corpus, docs_path_exists, ipc, all_chunks, embedded, ingest_result, ierror,
    \* ---- what the collection held when the run started, and whether the run
    \* follows a run that returned on the same files
    held_before, rerun,
    \* ---- chat(request) of main.py: its position, the session_id of the
    \* request ("" for none), the session_id it works on, the history it read,
    \* its response, and the message table as the request found it
    hpc, request_session, session_id, conversation_history, chat_response,
    log_before,
    \* ---- chunk_by_size(text, size, overlap), one iteration of its loop at a
    \* time: its arguments, its locals words, start and chunks, its position
    w_text, w_size, w_overlap, w_words, w_start, w_chunks, wpc,
    \* ---- _build_prompt(question, context, chunks, conversation_history): the
    \* history it is given, the prompt it returns, its position
    p_history, prompt, ppc,
    \* ---- two chat(request) calls on one event loop, each with its position,
    \* the session_id of its request, the answer session_exists gave it and
    \* the error that ended it
    rpc, r_session, r_seen, r_error

chunkVars == <<content, doc_path, title, chunk_size, chunk_overlap, chunks, cpc>>

queryVars == <<qpc, model_key, groq_api_key, store_outcome, retrieved_chunks,
               provider, qresult, qerror, calls>>

chatVars == <<sessions, messages, now, recent, db_error>>

ingestVars == <<corpus, docs_path_exists, ipc, all_chunks, embedded,
                ingest_result, ierror, held_before, rerun>>

requestVars == <<hpc, request_session, session_id, conversation_history,
                 chat_response, log_before>>

windowVars == <<w_text, w_size, w_overlap, w_words, w_start, w_chunks, wpc>>

promptVars == <<p_history, prompt, ppc>>

raceVars == <<rpc, r_session, r_seen, r_error>>

vars == <<chunkVars, collection, queryVars, chatVars, ingestVars, requestVars,
          windowVars, promptVars, raceVars>>

-----------------------------------------------------------------------------
(* Bounds of the model *)

\* The longest generated document, in lines.
MaxLines == 4

\* The most messages the chat database is given.
MaxMessages == 3

\* The last second of the clock.
MaxTime == 1

-----------------------------------------------------------------------------
(* Text *)

NL == "\n"
SP == " "
HASH == "#"

\* The number of characters of a token.
Width(c) ==
    CASE c \in {HASH, SP, NL, "1", "2", "-", "T"} -> 1
      [] c \in {"is", "1.", "2.", "to", "be"} -> 2
      [] c = "for" -> 3
      [] c \in {"Main", "This", "Test", "that", "long"} -> 4
      [] c \in {"Short", "Title", "intro"} -> 5
      [] c = "enough" -> 6
      [] c \in {"Section", "Content", "section", "content"} -> 7
      [] c \in {"content.", "Document"} -> 8
      [] c = "included." -> 9
      [] c = "w30" -> 30
      [] c = "w99" -> 99
      [] c = "w100" -> 100
      [] OTHER -> 1

\* len(text)
RECURSIVE StrLen(_)
StrLen(s) == IF s = <<>> THEN 0 ELSE Width(Head(s)) + StrLen(Tail(s))

\* \s of the regular expressions and the whitespace of strip() and split()
IsWs(c) == c \in {SP, NL}

\* The length of the longest run of tokens of the set cs that starts at s[i].
RECURSIVE RunLen(_, _, _)
RunLen(s, i, cs) ==
    IF i <= Len(s) /\ s[i] \in cs THEN 1 + RunLen(s, i + 1, cs) ELSE 0

\* The index of the first "\n" at or after s[i]; 0 when there is none.
RECURSIVE NextNl(_, _)
NextNl(s, i) ==
    IF i > Len(s) THEN 0 ELSE IF s[i] = NL THEN i ELSE NextNl(s, i + 1)

MaxOf(S) == CHOOSE x \in S : \A y \in S : y <= x

\* str.strip()
RECURSIVE LStrip(_)
LStrip(s) == IF s # <<>> /\ IsWs(Head(s)) THEN LStrip(Tail(s)) ELSE s

RECURSIVE RStrip(_)
RStrip(s) ==
    IF s # <<>> /\ IsWs(s[Len(s)]) THEN RStrip(SubSeq(s, 1, Len(s) - 1)) ELSE s

Strip(s) == RStrip(LStrip(s))

\* The length of the longest run of non-whitespace tokens that starts at s[i].
RECURSIVE WordLen(_, _)
WordLen(s, i) ==
    IF i <= Len(s) /\ ~IsWs(s[i]) THEN 1 + WordLen(s, i + 1) ELSE 0

\* str.split(): the maximal runs of non-whitespace tokens, in order.
RECURSIVE Split(_)
Split(s) ==
    LET t == LStrip(s)
        n == WordLen(t, 1)
    IN  IF t = <<>> THEN <<>>
        ELSE <<SubSeq(t, 1, n)>> \o Split(SubSeq(t, n + 1, Len(t)))

\* ' '.join(words)
RECURSIVE Join(_)
Join(ws) ==
    IF ws = <<>> THEN <<>>
    ELSE IF Len(ws) = 1 THEN ws[1]
    ELSE ws[1] \o <<SP>> \o Join(Tail(ws))

\* Whether sub occurs in s as a contiguous run of tokens ("sub in s").
Contains(s, sub) ==
    \E k \in 0..(Len(s) - Len(sub)) : SubSeq(s, k + 1, k + Len(sub)) = sub

-----------------------------------------------------------------------------
(* re.split(r'\n(#{1,3}\s+.+)\n', content) *)

\* The pattern tried at s[i]: "\n", one to three "#" (a fourth "#" is not \s, so
\* the whole run of "#" must be it), \s+ greedy over the whitespace that follows
\* and giving back one character at a time, .+ to the end of that line, "\n".
\* The index of the closing "\n", or 0 when the pattern does not match at s[i].
HeaderEnd(s, i) ==
    IF i > Len(s) \/ s[i] # NL THEN 0
    ELSE LET h == RunLen(s, i + 1, {HASH})
             w == RunLen(s, i + 1 + h, {SP, NL})
             J == {j \in 1..w :
                     LET st == i + 1 + h + j
                     IN  st <= Len(s) /\ s[st] # NL /\ NextNl(s, st + 1) # 0}
         IN  IF h \in 1..3 /\ J # {}
             THEN NextNl(s, i + 1 + h + MaxOf(J) + 1)
             ELSE 0

\* The leftmost index at or after s[i] where the pattern matches; 0 when none.
RECURSIVE NextHeader(_, _)
NextHeader(s, i) ==
    IF i > Len(s) THEN 0
    ELSE IF HeaderEnd(s, i) # 0 THEN i
    ELSE NextHeader(s, i + 1)

\* The list re.split returns for the text from s[pos] on: the text before each
\* match, the match's group (the header line, without its two "\n"), and last the
\* text after the last match.  Matches do not overlap: the search resumes after
\* the closing "\n" of the previous match.
RECURSIVE SplitFrom(_, _)
SplitFrom(s, pos) ==
    LET m == NextHeader(s, pos)
        q == HeaderEnd(s, m)
    IN  IF m = 0 THEN <<SubSeq(s, pos, Len(s))>>
        ELSE <<SubSeq(s, pos, m - 1), SubSeq(s, m + 1, q - 1)>>
             \o SplitFrom(s, q + 1)

re_split_headers(s) == SplitFrom(s, 1)

-----------------------------------------------------------------------------
(* clean_markdown *)

\* re.sub(r'#+\s+', '', text): every run of "#" that whitespace follows is
\* removed together with all of that whitespace.
RECURSIVE SubHashes(_)
SubHashes(s) ==
    IF s = <<>> THEN <<>>
    ELSE LET h == RunLen(s, 1, {HASH})
             w == RunLen(s, 1 + h, {SP, NL})
         IN  IF h >= 1 /\ w >= 1 THEN SubHashes(SubSeq(s, h + w + 1, Len(s)))
             ELSE IF h >= 1
             THEN SubSeq(s, 1, h) \o SubHashes(SubSeq(s, h + 1, Len(s)))
             ELSE <<Head(s)>> \o SubHashes(Tail(s))

\* re.sub(r'\n{3,}', '\n\n', text)
RECURSIVE SubNewlines(_)
SubNewlines(s) ==
    IF s = <<>> THEN <<>>
    ELSE LET n == RunLen(s, 1, {NL})
         IN  IF n >= 3 THEN <<NL, NL>> \o SubNewlines(SubSeq(s, n + 1, Len(s)))
             ELSE IF n >= 1
             THEN SubSeq(s, 1, n) \o SubNewlines(SubSeq(s, n + 1, Len(s)))
             ELSE <<Head(s)>> \o SubNewlines(Tail(s))

\* The substitutions of lines 31-34 and 36-37 (HTML tags, links, code fences,
\* inline code, bold, italic) match only text with "<", "[", "`" or "*", which
\* no token of this model holds: on this alphabet they change nothing.
clean_markdown(text) == Strip(SubNewlines(SubHashes(text)))

\* re.sub(r'^#+\s+', '', header)
StripHeaderMarks(header) ==
    LET h == RunLen(header, 1, {HASH})
        w == RunLen(header, 1 + h, {SP, NL})
    IN  IF h >= 1 /\ w >= 1 THEN SubSeq(header, h + w + 1, Len(header))
        ELSE header

-----------------------------------------------------------------------------
(* chunk_by_size and chunk_by_headers *)

\* The minimum-length literal of chunk_by_headers.
MinChunkLen == 50

\* DocumentChunk.embedding before embed_chunks has set it.
NoEmbedding == <<"None">>

\* hashlib.md5(key.encode()).hexdigest(), taken to be free of collisions.
md5_hexdigest(key) == <<"md5">> \o key

\* f"{doc_path}:{len(chunks)}"
ChunkKey(path, n) == <<path, ":", ToString(n)>>

\* A window key that does not count the chunks emitted so far.
SubChunkKeyNoCount(path, n, j) == <<path, ":", "0", ":", ToString(j)>>

\* f"{doc_path}:{len(chunks)}:{j}"
SubChunkKey(path, n, j) == <<path, ":", ToString(n), ":", ToString(j)>>

\* A chunk whose id is the hash of its text.
DocumentChunkContentId(id, path, ttl, text, section) ==
    [id |-> md5_hexdigest(text), doc_path |-> path, title |-> ttl, text |-> text,
     embedding |-> NoEmbedding, metadata |-> [section |-> section]]

DocumentChunk(id, path, ttl, text, section) ==
    [id |-> id, doc_path |-> path, title |-> ttl, text |-> text,
     embedding |-> NoEmbedding, metadata |-> [section |-> section]]

\* "chunk_text and len(chunk_text) > 50"
PassesMinLength(chunk_text) ==
    chunk_text # <<>> /\ StrLen(chunk_text) > MinChunkLen

\* "len(chunk_text) > settings.chunk_size"
NeedsResplit(chunk_text, size) == StrLen(chunk_text) > size

\* The while loop of chunk_by_size from the window that starts at word `start`
\* (counted from 0).  It ends only when size > overlap, which every
\* configuration of this model satisfies.
RECURSIVE WindowsFrom(_, _, _, _)
WindowsFrom(words, size, overlap, start) ==
    IF start >= Len(words) THEN <<>>
    ELSE LET end == start + size
             last == IF end < Len(words) THEN end ELSE Len(words)
             chunk == Join(SubSeq(words, start + 1, last))
         IN  <<chunk>> \o (IF end >= Len(words) THEN <<>>
                           ELSE WindowsFrom(words, size, overlap, end - overlap))

chunk_by_size(text, size, overlap) == WindowsFrom(Split(text), size, overlap, 0)

\* A section chunk titled with the name of its section alone.
SectionOnlyTitle(ttl, section_title) == section_title

\* The title of a section's chunks: f"{title} - {section_title}"
SectionChunkTitle(ttl, section_title) == ttl \o <<SP, "-", SP>> \o section_title

\* Lines 68-78: the un-headered text before a header, as a chunk of its own.
EmitLeading(acc, current_text, path, ttl) ==
    LET chunk_text == clean_markdown(current_text)
    IN  IF Strip(current_text) # <<>> /\ PassesMinLength(chunk_text)
        THEN Append(acc, DocumentChunk(md5_hexdigest(ChunkKey(path, Len(acc))),
                                       path, ttl, chunk_text, ttl))
        ELSE acc

\* Lines 80-103: the section under a header, whole or re-split by size.
EmitSection(acc, header, section_content, path, ttl, size, overlap) ==
    LET section_title == StripHeaderMarks(header)
        combined_text == section_title \o <<NL, NL>> \o section_content
        chunk_text == clean_markdown(combined_text)
        sub_chunks == chunk_by_size(chunk_text, size, overlap)
    IN  IF NeedsResplit(chunk_text, size)
        THEN acc \o [j \in 1..Len(sub_chunks) |->
                       DocumentChunk(
                           md5_hexdigest(SubChunkKey(path, Len(acc) + j - 1, j - 1)),
                           path, SectionChunkTitle(ttl, section_title),
                           sub_chunks[j], section_title)]
        ELSE IF PassesMinLength(chunk_text)
        THEN Append(acc, DocumentChunk(md5_hexdigest(ChunkKey(path, Len(acc))),
                                       path, SectionChunkTitle(ttl, section_title),
                                       chunk_text, section_title))
        ELSE acc

\* A loop that keeps the body of a section in current_text after the section
\* has been emitted.
RECURSIVE HeaderLoopKeepsText(_, _, _, _, _, _, _, _)
HeaderLoopKeepsText(sections, i, acc, current_text, path, ttl, size, overlap) ==
    IF i >= Len(sections) THEN <<acc, current_text>>
    ELSE LET header == Strip(sections[i + 1])
             section_content == sections[i + 2]
             withLeading == EmitLeading(acc, current_text, path, ttl)
             withSection == EmitSection(withLeading, header, section_content,
                                        path, ttl, size, overlap)
         IN  HeaderLoopKeepsText(sections, i + 2, withSection, section_content,
                                 path, ttl, size, overlap)

\* Lines 63-107: the loop "for i in range(1, len(sections), 2)", from index i
\* (counted from 0) with the chunks emitted so far and current_text; it yields
\* the pair <<chunks, current_text>> the loop ends with.
RECURSIVE HeaderLoop(_, _, _, _, _, _, _, _)
HeaderLoop(sections, i, acc, current_text, path, ttl, size, overlap) ==
    IF i >= Len(sections) THEN <<acc, current_text>>
    ELSE IF i + 1 < Len(sections)
    THEN LET header == Strip(sections[i + 1])
             section_content == sections[i + 2]
             withLeading == EmitLeading(acc, current_text, path, ttl)
             withSection == EmitSection(withLeading, header, section_content,
                                        path, ttl, size, overlap)
         IN  HeaderLoop(sections, i + 2, withSection, <<>>,
                        path, ttl, size, overlap)
    ELSE HeaderLoop(sections, i + 2, acc, current_text \o sections[i + 1],
                    path, ttl, size, overlap)

\* Lines 48-59: a document in which re.split found no header.
HeaderlessChunks(text, path, ttl) ==
    LET chunk_text == clean_markdown(text)
    IN  IF chunk_text # <<>>
        THEN <<DocumentChunk(md5_hexdigest(ChunkKey(path, 0)),
                             path, ttl, chunk_text, ttl)>>
        ELSE <<>>

\* Lines 109-119: the text left in current_text after the loop.
EmitTrailing(acc, current_text, path, ttl) ==
    LET chunk_text == clean_markdown(current_text)
    IN  IF Strip(current_text) # <<>> /\ PassesMinLength(chunk_text)
        THEN Append(acc, DocumentChunk(md5_hexdigest(ChunkKey(path, Len(acc))),
                                       path, ttl, chunk_text,
                                       <<"Additional", SP, "Content">>))
        ELSE acc

chunk_by_headers(text, path, ttl, size, overlap) ==
    LET sections == re_split_headers(text)
        looped == HeaderLoop(sections, 1, <<>>, sections[1],
                             path, ttl, size, overlap)
    IN  IF Len(sections) = 1 THEN HeaderlessChunks(text, path, ttl)
        ELSE EmitTrailing(looped[1], looped[2], path, ttl)

-----------------------------------------------------------------------------
(* The documents and settings the chunker is run on *)

LBlank == <<>>
LHeader1 == <<HASH, HASH, SP, "Section", SP, "1">>
LHeader2 == <<HASH, SP, "Section", SP, "2">>
LDeep == <<HASH, HASH, HASH, HASH, SP, "Section", SP, "1">>
LShort == <<"Short">>
LBody == <<"w30", SP, "w30">>
LBig == <<"w100", SP, "w100", SP, "w100", SP, "w100", SP, "w100", SP, "w100">>

Lines == {LBlank, LHeader1, LHeader2, LDeep, LShort, LBody, LBig}

\* "\n".join(ls)
RECURSIVE JoinLines(_)
JoinLines(ls) ==
    IF ls = <<>> THEN <<>>
    ELSE IF Len(ls) = 1 THEN ls[1]
    ELSE ls[1] \o <<NL>> \o JoinLines(Tail(ls))

GeneratedDocs ==
    UNION {{JoinLines(ls) : ls \in [1..n -> Lines]} : n \in 1..MaxLines}

\* The document of test_chunk_by_headers.
TestDocHeaders ==
    JoinLines(<<
        <<HASH, SP, "Main", SP, "Title">>, LBlank,
        <<"This", SP, "is", SP, "intro", SP, "content.">>, LBlank,
        LHeader1, LBlank,
        <<"Content", SP, "for", SP, "section", SP, "1.">>, LBlank,
        <<HASH, HASH, SP, "Section", SP, "2">>, LBlank,
        <<"Content", SP, "for", SP, "section", SP, "2.">>, LBlank>>)

\* The document of test_chunk_metadata.
TestDocMetadata ==
    JoinLines(<<
        <<HASH, HASH, SP, "Test", SP, "Section">>, LBlank,
        <<"Test", SP, "content", SP, "that", SP, "is", SP, "long", SP,
          "enough", SP, "to", SP, "be", SP, "included.">>>>)

Docs == GeneratedDocs \cup {TestDocHeaders, TestDocMetadata}

\* (doc_path, title) pairs.
DocNames == {<<"test.md", <<"Test">>>>, <<"guide.md", <<"Test", SP, "Document">>>>}

\* The defaults of settings.chunk_size and settings.chunk_overlap.
DefaultChunkSize == 500
DefaultChunkOverlap == 100

\* (settings.chunk_size, settings.chunk_overlap): the defaults, and a small
\* configuration under which short sections are re-split too.
Configs == {<<DefaultChunkSize, DefaultChunkOverlap>>, <<3, 1>>}

-----------------------------------------------------------------------------
(* The chunker run on one document *)

ChunkInit ==
    /\ content \in Docs
    /\ \E nm \in DocNames : doc_path = nm[1] /\ title = nm[2]
    /\ \E cfg \in Configs : chunk_size = cfg[1] /\ chunk_overlap = cfg[2]
    /\ chunks = <<>>
    /\ cpc = "ready"

\* chunks = chunk_by_headers(content, doc_path, title)
ChunkDocument ==
    /\ cpc = "ready"
    /\ chunks' = chunk_by_headers(content, doc_path, title,
                                  chunk_size, chunk_overlap)
    /\ cpc' = "done"
    /\ UNCHANGED <<content, doc_path, title, chunk_size, chunk_overlap>>
    /\ UNCHANGED <<collection, queryVars, chatVars, ingestVars, requestVars,
                   windowVars, promptVars, raceVars>>

\* No chunker run in progress; the settings are the defaults of config.py.
ChunkIdle ==
    /\ content = <<>>
    /\ doc_path = ""
    /\ title = <<>>
    /\ chunk_size = DefaultChunkSize
    /\ chunk_overlap = DefaultChunkOverlap
    /\ chunks = <<>>
    /\ cpc = "off"

-----------------------------------------------------------------------------
(* chunk_by_size, one iteration of its loop at a time *)

\* The most words of a text chunk_by_size is run on, and the largest size and
\* overlap.
MaxWords == 6
MaxSize == 3

\* The number of windows after which a run is followed no further: more than
\* any run that returns appends.
MaxWindows == MaxWords + 2

Min(a, b) == IF a < b THEN a ELSE b

\* words[lo:hi] of Python, indices counted from 0, a negative index counted
\* from the end.
PySlice(words, lo, hi) ==
    LET n == Len(words)
        norm(i) == IF i < 0 THEN MaxOf({i + n, 0}) ELSE Min(i, n)
    IN  SubSeq(words, norm(lo) + 1, norm(hi))

\* A next window that starts where the window before it ended.
NextStartNoOverlap(end, overlap) == end

\* "start = end - overlap"
NextStart(end, overlap) == end - overlap

\* The texts: the words "1", "2", ..., n, after some leading whitespace and
\* with one separator between two words.
RECURSIVE WordsText(_, _)
WordsText(n, sep) ==
    IF n = 0 THEN <<>>
    ELSE IF n = 1 THEN <<ToString(1)>>
    ELSE WordsText(n - 1, sep) \o sep \o <<ToString(n)>>

WindowTexts ==
    {lead \o WordsText(n, sep) \o trail :
        n \in 0..MaxWords, sep \in {<<SP>>, <<NL, NL>>},
        lead \in {<<>>, <<SP>>}, trail \in {<<>>, <<NL>>}}

WindowInit ==
    /\ w_text \in WindowTexts
    /\ w_size \in 1..MaxSize
    /\ w_overlap \in 0..MaxSize
    /\ w_words = <<>>
    /\ w_start = 0
    /\ w_chunks = <<>>
    /\ wpc = "call"

\* Lines 125-127: chunks = [], words = text.split(), start = 0.
WindowSplit ==
    /\ wpc = "call"
    /\ w_words' = Split(w_text)
    /\ w_start' = 0
    /\ w_chunks' = <<>>
    /\ wpc' = "loop"
    /\ UNCHANGED <<w_text, w_size, w_overlap>>
    /\ UNCHANGED <<chunkVars, collection, queryVars, chatVars, ingestVars,
                   requestVars, promptVars, raceVars>>

\* Lines 129-137: one iteration of "while start < len(words)", which appends
\* a window and either breaks or moves start.
WindowStep ==
    /\ wpc = "loop"
    /\ w_start < Len(w_words)
    /\ Len(w_chunks) < MaxWindows
    /\ LET end == w_start + w_size
           chunk == Join(PySlice(w_words, w_start, end))
       IN  /\ w_chunks' = Append(w_chunks, chunk)
           /\ IF end >= Len(w_words)
              THEN wpc' = "done" /\ UNCHANGED w_start
              ELSE wpc' = "loop" /\ w_start' = NextStart(end, w_overlap)
    /\ UNCHANGED <<w_text, w_size, w_overlap, w_words>>
    /\ UNCHANGED <<chunkVars, collection, queryVars, chatVars, ingestVars,
                   requestVars, promptVars, raceVars>>

\* Lines 129, 139: the loop condition is false, chunks is returned.
WindowExit ==
    /\ wpc = "loop"
    /\ w_start >= Len(w_words)
    /\ wpc' = "done"
    /\ UNCHANGED <<w_text, w_size, w_overlap, w_words, w_start, w_chunks>>
    /\ UNCHANGED <<chunkVars, collection, queryVars, chatVars, ingestVars,
                   requestVars, promptVars, raceVars>>

\* No chunk_by_size run followed step by step.
WindowIdle ==
    /\ w_text = <<>>
    /\ w_size = DefaultChunkSize
    /\ w_overlap = DefaultChunkOverlap
    /\ w_words = <<>>
    /\ w_start = 0
    /\ w_chunks = <<>>
    /\ wpc = "off"

-----------------------------------------------------------------------------
(* VectorStore: add_chunks, search, clear, count *)

\* 1.0 of the relevance score; distances and scores are counted in tenths.
Unit == 10

\* settings.top_k_results
TopK == 5

\* The distances collection.query may answer with, in tenths: below 0 (what
\* rounding gives for equal vectors), 0, inside (0, 1), 1, above 1, and 2.
Distances == {-1, 0, 4, 10, 12, 20}

\* The value of "embedding" in what genai.embed_content answers for a text.
EmbeddingOf(text) == <<"embedding">> \o text

\* Lines 49-64 of add_chunks: the record collection.add is given for a chunk.
StoreRecord(chunk) ==
    [id |-> chunk.id, embedding |-> chunk.embedding, document |-> chunk.text,
     metadata |-> [doc_path |-> chunk.doc_path, title |-> chunk.title,
                   section |-> chunk.metadata.section]]

SeqToSet(sq) == {sq[k] : k \in 1..Len(sq)}

HasDuplicateIds(cs) ==
    \E a, b \in 1..Len(cs) : a # b /\ cs[a].id = cs[b].id

\* An add that stores the first chunk only.
CollectionAfterAddFirst(coll, cs) ==
    coll \cup {StoreRecord(c) : c \in {d \in SeqToSet(cs) :
                                        d = cs[1] /\ \A r \in coll : r.id # d.id}}

\* collection.add(ids, embeddings, documents, metadatas) when it succeeds: the
\* records are added; a record whose id the collection holds already is left
\* as it is.
CollectionAfterAdd(coll, cs) ==
    coll \cup {StoreRecord(c) : c \in {d \in SeqToSet(cs) :
                                        \A r \in coll : r.id # d.id}}

\* collection.count()
Count(coll) == Cardinality(coll)

\* "score = max(0.0, 1.0 - distance)"
ScoreOf(distance) == IF Unit - distance > 0 THEN Unit - distance ELSE 0

\* Lines 93-121 of search: the RetrievedChunk built for row i of a response.
\* A response without distances gives every row the distance 1.0.
RetrievedChunk(response, i) ==
    LET metadata == response.metadatas[i]
        distance == IF response.distances # <<>> THEN response.distances[i]
                    ELSE Unit
    IN  [doc_path |-> metadata.doc_path, title |-> metadata.title,
         text |-> response.documents[i], score |-> ScoreOf(distance),
         metadata |-> metadata]

\* The sequences without repetition of all the elements of a set.
Orderings(S) ==
    {sq \in [1..Cardinality(S) -> S] :
        \A a, b \in 1..Cardinality(S) : a # b => sq[a] # sq[b]}

NonDecreasing(sq) == \A a, b \in 1..Len(sq) : a < b => sq[a] <= sq[b]

\* What collection.query(query_embeddings, n_results=top_k, include=...) may
\* answer on a collection that is not empty: the min(top_k, count) nearest
\* records, nearest first, with their distances or without any; or no row.
QueryResponses(coll, top_k) ==
    LET n == IF Count(coll) < top_k THEN Count(coll) ELSE top_k
        rows == {SubSeq(o, 1, n) : o \in Orderings(coll)}
        dists == {d \in [1..n -> Distances] : NonDecreasing(d)} \cup {<<>>}
    IN  {[ids |-> [k \in 1..Len(r) |-> r[k].id],
          documents |-> [k \in 1..Len(r) |-> r[k].document],
          metadatas |-> [k \in 1..Len(r) |-> r[k].metadata],
          distances |-> d] : r \in rows, d \in dists}
        \cup {[ids |-> <<>>, documents |-> <<>>, metadatas |-> <<>>,
               distances |-> <<>>]}

\* Lines 89-124 of search, for a response collection.query gave.
SearchResult(response) ==
    IF response.ids = <<>> THEN <<>>
    ELSE [i \in 1..Len(response.ids) |-> RetrievedChunk(response, i)]

-----------------------------------------------------------------------------
(* LLM providers *)

\* LLMFactory.AVAILABLE_MODELS
AvailableModels ==
    [k \in {"gemini", "gemini-2.5-flash", "gemini-2.5-pro", "groq-llama3",
            "groq-llama-8b", "groq-llama-70b", "groq-mixtral"} |->
        CASE k = "gemini" -> <<"gemini-2.5-flash", "GeminiProvider">>
          [] k = "gemini-2.5-flash" -> <<"gemini-2.5-flash", "GeminiProvider">>
          [] k = "gemini-2.5-pro" -> <<"gemini-2.5-pro", "GeminiProvider">>
          [] k = "groq-llama3" -> <<"llama-3.1-8b-instant", "GroqProvider">>
          [] k = "groq-llama-8b" -> <<"llama-3.1-8b-instant", "GroqProvider">>
          [] k = "groq-llama-70b" -> <<"llama-3.1-70b-versatile", "GroqProvider">>
          [] k = "groq-mixtral" -> <<"mixtral-8x7b-32768", "GroqProvider">>]

\* GeminiProvider(model_name); "" stands for no model_name.
GeminiProvider(model_name) ==
    [class |-> "GeminiProvider",
     model_name |-> IF model_name = "" THEN "gemini-2.5-flash" ELSE model_name]

\* What the constructor of the Groq client may do when it is given a key:
\* build the client, or raise an error that is no ValueError.
ClientOutcomes == {"ok", "TypeError"}

\* An exception that leaves create_provider.
ProviderRaised(error) == [class |-> "raised", model_name |-> error]

\* A factory that refuses a key it does not know.
create_provider_strict(key, groq_key, client) ==
    IF key = "" \/ key = "gemini" THEN GeminiProvider("")
    ELSE IF key \notin DOMAIN AvailableModels THEN ProviderRaised("KeyError")
    ELSE IF AvailableModels[key][2] = "GroqProvider"
    THEN IF groq_key = "" THEN GeminiProvider("")
         ELSE IF client # "ok" THEN ProviderRaised(client)
         ELSE [class |-> "GroqProvider", model_name |-> AvailableModels[key][1]]
    ELSE GeminiProvider(AvailableModels[key][1])

\* LLMFactory.create_provider(model_key); "" stands for no model_key.
\* GroqProvider.__init__ raises ValueError when settings.groq_api_key is empty,
\* and create_provider catches ValueError only: another error of the
\* constructor leaves create_provider.
create_provider(key, groq_key, client) ==
    IF key = "" \/ key = "gemini" THEN GeminiProvider("")
    ELSE IF key \notin DOMAIN AvailableModels THEN GeminiProvider("")
    ELSE IF AvailableModels[key][2] = "GroqProvider"
    THEN IF groq_key = "" THEN GeminiProvider("")
         ELSE IF client # "ok" THEN ProviderRaised(client)
         ELSE [class |-> "GroqProvider", model_name |-> AvailableModels[key][1]]
    ELSE GeminiProvider(AvailableModels[key][1])

\* What the generation service may do for a prompt: raise, answer with nothing
\* in it (no parts, no content), or answer with a text.
GenerationOutcomes ==
    {[kind |-> "raises", text |-> <<>>], [kind |-> "empty", text |-> <<>>]}
    \cup {[kind |-> "text", text |-> t] :
            t \in {<<"The", SP, "answer.", NL>>, <<SP>>, <<>>}}

\* provider.generate(prompt) for an outcome that does not raise.
GeneratedAnswer(outcome) == Strip(outcome.text)

-----------------------------------------------------------------------------
(* Retriever.query *)

NoInfoAnswer ==
    <<"I couldn't find any relevant information in the documentation to answer your question.">>

Question == <<"What", SP, "is", SP, "indexed?">>

ModelKeys == {"", "gemini", "gemini-2.5-pro", "groq-llama3", "gpt-4"}

NoResult == [answer |-> <<>>, chunks |-> <<>>, query |-> <<>>]

QueryStart ==
    /\ qpc = "start"
    /\ model_key \in ModelKeys
    /\ groq_api_key \in {"", "gsk-key"}
    /\ store_outcome = "none"
    /\ retrieved_chunks = <<>>
    /\ provider = [class |-> "none", model_name |-> ""]
    /\ qresult = NoResult
    /\ qerror = "none"
    /\ calls = <<>>

QueryIdle ==
    /\ qpc = "off"
    /\ model_key = ""
    /\ groq_api_key = ""
    /\ store_outcome = "none"
    /\ retrieved_chunks = <<>>
    /\ provider = [class |-> "none", model_name |-> ""]
    /\ qresult = NoResult
    /\ qerror = "none"
    /\ calls = <<>>

\* _embed_query: genai.embed_content answers or raises, and the error is raised
\* again.
EmbedQuery ==
    /\ qpc = "start"
    /\ calls' = Append(calls, "embed_content")
    /\ \/ qpc' = "search" /\ qerror' = qerror
       \/ qpc' = "failed" /\ qerror' = "embed_content"
    /\ UNCHANGED <<model_key, groq_api_key, store_outcome, retrieved_chunks,
                   provider, qresult>>
    /\ UNCHANGED <<chunkVars, windowVars, collection, chatVars, ingestVars, requestVars,
                   promptVars, raceVars>>

\* VectorStore.search(query_embedding, top_k): collection.count() is called
\* outside the try block, collection.query inside it.
Search ==
    /\ qpc = "search"
    /\ calls' = Append(calls, "search")
    /\ \/ /\ store_outcome' = "count_raises"
          /\ qpc' = "failed"
          /\ qerror' = "count"
          /\ UNCHANGED retrieved_chunks
       \/ /\ Count(collection) = 0
          /\ store_outcome' = "empty_index"
          /\ retrieved_chunks' = <<>>
          /\ qpc' = "searched"
          /\ UNCHANGED qerror
       \/ /\ Count(collection) # 0
          /\ store_outcome' = "query_raises"
          /\ retrieved_chunks' = <<>>
          /\ qpc' = "searched"
          /\ UNCHANGED qerror
       \/ /\ Count(collection) # 0
          /\ \E response \in QueryResponses(collection, TopK) :
                /\ store_outcome' = IF response.ids = <<>> THEN "no_matches"
                                    ELSE "hits"
                /\ retrieved_chunks' = SearchResult(response)
          /\ qpc' = "searched"
          /\ UNCHANGED qerror
    /\ UNCHANGED <<model_key, groq_api_key, provider, qresult>>
    /\ UNCHANGED <<chunkVars, windowVars, collection, chatVars, ingestVars, requestVars,
                   promptVars, raceVars>>

\* A query that goes on to the generator whatever was retrieved.
NoResultsNever == FALSE

\* "if not retrieved_chunks"
NoResults == retrieved_chunks = <<>>

\* Lines 35-40: the fixed answer, with no chunk.
ReturnNoResults ==
    /\ qpc = "searched"
    /\ NoResults
    /\ qresult' = [answer |-> NoInfoAnswer, chunks |-> <<>>, query |-> Question]
    /\ qpc' = "done"
    /\ UNCHANGED <<model_key, groq_api_key, store_outcome, retrieved_chunks,
                   provider, qerror, calls>>
    /\ UNCHANGED <<chunkVars, windowVars, collection, chatVars, ingestVars, requestVars,
                   promptVars, raceVars>>

\* _generate_answer, first part: _build_context and _build_prompt.
BuildPrompt ==
    /\ qpc = "searched"
    /\ ~NoResults
    /\ calls' = calls \o <<"_build_context", "_build_prompt">>
    /\ qpc' = "provider"
    /\ UNCHANGED <<model_key, groq_api_key, store_outcome, retrieved_chunks,
                   provider, qresult, qerror>>
    /\ UNCHANGED <<chunkVars, windowVars, collection, chatVars, ingestVars, requestVars,
                   promptVars, raceVars>>

\* _generate_answer: LLMFactory.create_provider(model_key); an error of it is
\* logged and raised again (lines 81-83).
CreateProvider ==
    /\ qpc = "provider"
    /\ \E client \in ClientOutcomes :
          provider' = create_provider(model_key, groq_api_key, client)
    /\ calls' = Append(calls, "create_provider")
    /\ IF provider'.class = "raised"
       THEN qpc' = "failed" /\ qerror' = "create_provider"
       ELSE qpc' = "generate" /\ UNCHANGED qerror
    /\ UNCHANGED <<model_key, groq_api_key, store_outcome, retrieved_chunks,
                   qresult>>
    /\ UNCHANGED <<chunkVars, windowVars, collection, chatVars, ingestVars, requestVars,
                   promptVars, raceVars>>

\* _generate_answer: provider.generate(prompt), and the return of query.  Both
\* providers raise on an answer with nothing in it and on an error of the
\* service, and return response text stripped otherwise.
Generate ==
    /\ qpc = "generate"
    /\ calls' = Append(calls, "generate")
    /\ \E outcome \in GenerationOutcomes :
          IF outcome.kind \in {"raises", "empty"}
          THEN /\ qerror' = "generate"
               /\ qpc' = "failed"
               /\ UNCHANGED qresult
          ELSE /\ qresult' = [answer |-> GeneratedAnswer(outcome),
                              chunks |-> retrieved_chunks, query |-> Question]
               /\ qpc' = "done"
               /\ UNCHANGED qerror
    /\ UNCHANGED <<model_key, groq_api_key, store_outcome, retrieved_chunks,
                   provider>>
    /\ UNCHANGED <<chunkVars, windowVars, collection, chatVars, ingestVars, requestVars,
                   promptVars, raceVars>>

-----------------------------------------------------------------------------
(* ChatDatabase *)

\* settings.max_history_messages
MaxHistoryMessages == 10

SessionIds == {"s1", "s2"}

Roles == {"user", "assistant"}

Limits == {1, 2, MaxHistoryMessages}

NoRecent == [session_id |-> "", limit |-> 0, messages |-> <<>>]

ChatIdle ==
    /\ sessions = {}
    /\ messages = <<>>
    /\ now = 0
    /\ recent = NoRecent
    /\ db_error = "none"

\* A second passes.
Tick ==
    /\ now < MaxTime
    /\ now' = now + 1
    /\ UNCHANGED <<sessions, messages, recent, db_error>>
    /\ UNCHANGED <<chunkVars, windowVars, collection, queryVars, ingestVars, requestVars,
                   promptVars, raceVars>>

\* create_session(session_id): the INSERT fails on the primary key when the
\* session exists.
CreateSession(sid) ==
    /\ IF \E ss \in sessions : ss.id = sid
       THEN db_error' = "IntegrityError" /\ UNCHANGED sessions
       ELSE /\ sessions' = sessions \cup
                  {[id |-> sid, created_at |-> now, updated_at |-> now]}
            /\ db_error' = "none"
    /\ UNCHANGED <<messages, now, recent>>
    /\ UNCHANGED <<chunkVars, windowVars, collection, queryVars, ingestVars, requestVars,
                   promptVars, raceVars>>

\* The content given to the n-th add_message: one text per message.
ContentOf(n) == <<"message", SP, ToString(n)>>

\* add_message(session_id, role, content, sources): the INSERT with
\* created_at = CURRENT_TIMESTAMP, then update_session_timestamp.
AddMessage(sid, role, text, sources) ==
    /\ Len(messages) < MaxMessages
    /\ messages' = Append(messages,
          [id |-> Len(messages) + 1, session_id |-> sid, role |-> role,
           content |-> text, sources |-> sources, created_at |-> now])
    /\ sessions' = {IF ss.id = sid THEN [ss EXCEPT !.updated_at = now] ELSE ss :
                      ss \in sessions}
    /\ db_error' = "none"
    /\ UNCHANGED <<now, recent>>
    /\ UNCHANGED <<chunkVars, windowVars, collection, queryVars, ingestVars, requestVars,
                   promptVars, raceVars>>

\* The rows of a session, in the order of their insertion.
SessionRows(sid) == SelectSeq(messages, LAMBDA row : row.session_id = sid)

\* "ORDER BY created_at DESC": every order of the rows in which created_at does
\* not increase.  SQL leaves the order of rows with the same created_at open.
OrderedByCreatedAtDesc(rows) ==
    {o \in Orderings(SeqToSet(rows)) :
        \A a, b \in 1..Len(o) : a < b => o[a].created_at >= o[b].created_at}

Reversed(sq) == [k \in 1..Len(sq) |-> sq[Len(sq) + 1 - k]]

\* The ChatMessage built from a row.
ChatMessage(row) ==
    [role |-> row.role, content |-> row.content, sources |-> row.sources,
     created_at |-> row.created_at]

\* The lists get_recent_messages(session_id, limit) may return: the first
\* `limit` rows of the ordered selection, reversed.
RecentMessages(sid, limit) ==
    {LET n == IF Len(o) < limit THEN Len(o) ELSE limit
         rows == Reversed(SubSeq(o, 1, n))
     IN  [k \in 1..n |-> ChatMessage(rows[k])] :
        o \in OrderedByCreatedAtDesc(SessionRows(sid))}

GetRecentMessages(sid, limit) ==
    /\ \E ms \in RecentMessages(sid, limit) :
          recent' = [session_id |-> sid, limit |-> limit, messages |-> ms]
    /\ db_error' = "none"
    /\ UNCHANGED <<sessions, messages, now>>
    /\ UNCHANGED <<chunkVars, windowVars, collection, queryVars, ingestVars, requestVars,
                   promptVars, raceVars>>

-----------------------------------------------------------------------------
(* ingest_docs *)

\* The Markdown files the documentation folder may hold.  parse_markdown_file
\* gives (doc_path, title, content) for a readable file and raises for another;
\* dot_name and in_node_modules are the two tests of line 180.
FileA ==
    [path |-> "a.md", title |-> <<"Test", SP, "Doc">>, content |-> TestDocMetadata,
     readable |-> TRUE, dot_name |-> FALSE, in_node_modules |-> FALSE]
FileB ==
    [path |-> "guide/b.md", title |-> <<"Test">>,
     content |-> JoinLines(<<LBody, LHeader1, LBig>>),
     readable |-> TRUE, dot_name |-> FALSE, in_node_modules |-> FALSE]
FileC ==
    [path |-> "node_modules/pkg/readme.md", title |-> <<"Test">>,
     content |-> LBody,
     readable |-> TRUE, dot_name |-> FALSE, in_node_modules |-> TRUE]
FileD ==
    [path |-> "broken.md", title |-> <<"Test">>, content |-> LBody,
     readable |-> FALSE, dot_name |-> FALSE, in_node_modules |-> FALSE]
FileE ==
    [path |-> "short.md", title |-> <<"Test">>,
     content |-> JoinLines(<<LBlank, LHeader2, LShort>>),
     readable |-> TRUE, dot_name |-> FALSE, in_node_modules |-> FALSE]

Files == {FileA, FileB, FileC, FileD, FileE}

\* "md_file.name.startswith('.') or 'node_modules' in str(md_file)"
Skipped(file) == file.dot_name \/ file.in_node_modules

\* Lines 179-194: the chunks of the files of md_files, in its order; a file that
\* is skipped or that cannot be parsed adds none.
RECURSIVE ChunksOfFiles(_, _, _)
ChunksOfFiles(md_files, size, overlap) ==
    IF md_files = <<>> THEN <<>>
    ELSE LET file == Head(md_files)
             mine == IF Skipped(file) \/ ~file.readable THEN <<>>
                     ELSE chunk_by_headers(file.content, file.path, file.title,
                                           size, overlap)
         IN  mine \o ChunksOfFiles(Tail(md_files), size, overlap)

NoCount == -1

IngestIdle ==
    /\ corpus = {}
    /\ docs_path_exists = TRUE
    /\ ipc = "idle"
    /\ all_chunks = <<>>
    /\ embedded = 0
    /\ ingest_result = NoCount
    /\ ierror = "none"
    /\ held_before = {}
    /\ rerun = FALSE

\* The documentation folder changes between two runs; the outcome of the run
\* before is no longer looked at.
EditCorpus ==
    /\ ipc \in {"idle", "returned", "raised"}
    /\ \E exists \in BOOLEAN, files \in SUBSET Files :
          /\ docs_path_exists' = exists
          /\ corpus' = IF exists THEN files ELSE {}
          /\ <<exists, corpus'>> # <<docs_path_exists, corpus>>
    /\ ipc' = "idle"
    /\ ingest_result' = NoCount
    /\ ierror' = "none"
    /\ UNCHANGED <<all_chunks, embedded, held_before, rerun>>
    /\ UNCHANGED <<chunkVars, windowVars, collection, queryVars, chatVars, requestVars,
                   promptVars, raceVars>>

\* A clear() that leaves the records in place.
ClearedCollectionKeepsAll == collection

\* VectorStore.clear(): the collection is deleted and created again.
ClearedCollection == {}

\* Line 168: ingest_docs starts with vector_store.clear().
IngestClear ==
    /\ ipc \in {"idle", "returned", "raised"}
    /\ collection' = ClearedCollection
    /\ ipc' = "cleared"
    /\ all_chunks' = <<>>
    /\ embedded' = 0
    /\ ingest_result' = NoCount
    /\ ierror' = "none"
    /\ held_before' = collection
    /\ rerun' = (ipc = "returned")
    /\ UNCHANGED <<corpus, docs_path_exists>>
    /\ UNCHANGED <<chunkVars, windowVars, queryVars, chatVars, requestVars,
                   promptVars, raceVars>>

\* A run without chunks that ends with an error.
NoChunksRaises ==
    /\ ipc' = "raised"
    /\ ierror' = "ValueError"
    /\ UNCHANGED ingest_result

\* Lines 196-198: "if not all_chunks", a warning is logged and 0 is returned.
NoChunksReturn ==
    /\ ipc' = "returned"
    /\ ingest_result' = 0
    /\ UNCHANGED ierror

\* Lines 170-198: the path test, the files chunked in the order rglob gives
\* them, and the return of 0 when there is no chunk.
IngestScan ==
    /\ ipc = "cleared"
    /\ IF ~docs_path_exists
       THEN /\ ierror' = "ValueError"
            /\ ipc' = "raised"
            /\ UNCHANGED <<all_chunks, ingest_result>>
       ELSE \E md_files \in Orderings(corpus) :
               /\ all_chunks' = ChunksOfFiles(md_files, chunk_size, chunk_overlap)
               /\ IF all_chunks' = <<>>
                  THEN NoChunksReturn
                  ELSE UNCHANGED <<ingest_result, ierror>> /\ ipc' = "embedding"
    /\ UNCHANGED <<corpus, docs_path_exists, embedded, held_before, rerun>>
    /\ UNCHANGED <<chunkVars, windowVars, collection, queryVars, chatVars, requestVars,
                   promptVars, raceVars>>

\* An except block that logs the error and goes on with the next chunk.
EmbeddingFailedSkips ==
    /\ ierror' = "embed_content"
    /\ embedded' = embedded + 1
    /\ UNCHANGED <<all_chunks, ipc>>

\* The except block of embed_chunks: the error is logged and raised again.
EmbeddingFailed ==
    /\ ierror' = "embed_content"
    /\ ipc' = "raised"
    /\ UNCHANGED <<all_chunks, embedded>>

\* embed_chunks, one pass of its loop: genai.embed_content answers for the
\* next chunk, or raises.
EmbedChunk ==
    /\ ipc = "embedding"
    /\ embedded < Len(all_chunks)
    /\ \/ /\ all_chunks' = [all_chunks EXCEPT ![embedded + 1].embedding =
                               EmbeddingOf(all_chunks[embedded + 1].text)]
          /\ embedded' = embedded + 1
          /\ UNCHANGED <<ierror, ipc>>
       \/ EmbeddingFailed
    /\ UNCHANGED <<corpus, docs_path_exists, ingest_result, held_before, rerun>>
    /\ UNCHANGED <<chunkVars, windowVars, collection, queryVars, chatVars, requestVars,
                   promptVars, raceVars>>

\* Lines 204-208: vector_store.add_chunks(all_chunks), which raises when
\* collection.add does (two chunks with one id), and the return of
\* len(all_chunks).
IngestAdd ==
    /\ ipc = "embedding"
    /\ embedded = Len(all_chunks)
    /\ IF HasDuplicateIds(all_chunks)
       THEN /\ ierror' = "collection.add"
            /\ ipc' = "raised"
            /\ UNCHANGED <<collection, ingest_result>>
       ELSE /\ collection' = CollectionAfterAdd(collection, all_chunks)
            /\ ingest_result' = Len(all_chunks)
            /\ ipc' = "returned"
            /\ UNCHANGED ierror
    /\ UNCHANGED <<corpus, docs_path_exists, all_chunks, embedded, held_before,
                   rerun>>
    /\ UNCHANGED <<chunkVars, windowVars, queryVars, chatVars, requestVars,
                   promptVars, raceVars>>

-----------------------------------------------------------------------------
(* chat(request): POST /api/chat *)

\* The length of the snippet of a source: "chunk.text[:200]".
SnippetLen == 200

\* The characters of a text, each as (token, position in the token).
RECURSIVE Chars(_)
Chars(s) ==
    IF s = <<>> THEN <<>>
    ELSE [k \in 1..Width(Head(s)) |-> <<Head(s), k>>] \o Chars(Tail(s))

\* The characters of "...".
Ellipsis == <<<<".", 1>>, <<".", 1>>, <<".", 1>>>>

\* A snippet that is cut at 200 characters and says nothing of the cut.
SnippetCut(text) ==
    IF StrLen(text) > SnippetLen THEN SubSeq(Chars(text), 1, SnippetLen)
    ELSE Chars(text)

\* chunk.text[:200] + "..." if len(chunk.text) > 200 else chunk.text
Snippet(text) ==
    IF StrLen(text) > SnippetLen
    THEN SubSeq(Chars(text), 1, SnippetLen) \o Ellipsis
    ELSE Chars(text)

\* Lines 153-175: the Source of a chunk of the result, and its dict.
Source(chunk) ==
    [doc_path |-> chunk.doc_path, title |-> chunk.title,
     snippet |-> Snippet(chunk.text), score |-> chunk.score]

\* str(uuid.uuid4()), for a request without session_id.
NewSessionId == "uuid-1"

NoResponse == [status |-> 0, answer |-> <<>>, sources |-> <<>>, session_id |-> ""]

RequestIdle ==
    /\ hpc = "off"
    /\ request_session = ""
    /\ session_id = ""
    /\ conversation_history = <<>>
    /\ chat_response = NoResponse
    /\ log_before = <<>>

\* The row add_message inserts.
MessageRow(msgs, sid, role, text, sources) ==
    [id |-> Len(msgs) + 1, session_id |-> sid, role |-> role,
     content |-> text, sources |-> sources, created_at |-> now]

\* update_session_timestamp(session_id)
Touched(ss, sid) ==
    {IF x.id = sid THEN [x EXCEPT !.updated_at = now] ELSE x : x \in ss}

\* Lines 117-125: the session of the request is created when the request
\* names none, or names one that session_exists does not find.
SessionsOfRequest(sid) ==
    IF \E x \in sessions : x.id = sid THEN sessions
    ELSE sessions \cup {[id |-> sid, created_at |-> now, updated_at |-> now]}

\* Lines 117-147: the session, the history read (enable_chat_history is on),
\* the user message added, and the call of retriever.query.
ChatStart ==
    /\ hpc = "ready"
    /\ qpc = "off"
    /\ session_id' = IF request_session = "" THEN NewSessionId
                     ELSE request_session
    /\ \E ms \in RecentMessages(session_id', MaxHistoryMessages) :
          /\ conversation_history' = ms
          /\ recent' = [session_id |-> session_id', limit |-> MaxHistoryMessages,
                        messages |-> ms]
    /\ log_before' = messages
    /\ messages' = Append(messages,
                          MessageRow(messages, session_id', "user", Question, <<>>))
    /\ sessions' = Touched(SessionsOfRequest(session_id'), session_id')
    /\ db_error' = "none"
    /\ qpc' = "start"
    /\ hpc' = "querying"
    /\ UNCHANGED <<request_session, chat_response, now>>
    /\ UNCHANGED <<model_key, groq_api_key, store_outcome, retrieved_chunks,
                   provider, qresult, qerror, calls>>
    /\ UNCHANGED <<chunkVars, windowVars, collection, ingestVars, promptVars,
                   raceVars>>

\* Lines 153-183: query returned; the sources, the assistant message added, and
\* the ChatResponse.
ChatRespond ==
    /\ hpc = "querying"
    /\ qpc = "done"
    /\ LET sources == [i \in 1..Len(qresult.chunks) |-> Source(qresult.chunks[i])]
       IN  /\ messages' = Append(messages,
                  MessageRow(messages, session_id, "assistant", qresult.answer,
                             sources))
           /\ chat_response' = [status |-> 200, answer |-> qresult.answer,
                                sources |-> sources, session_id |-> session_id]
    /\ sessions' = Touched(sessions, session_id)
    /\ db_error' = "none"
    /\ hpc' = "responded"
    /\ UNCHANGED <<request_session, session_id, conversation_history, log_before,
                   now, recent>>
    /\ UNCHANGED <<chunkVars, windowVars, collection, queryVars, ingestVars,
                   promptVars, raceVars>>

\* Lines 185-187: query raised; the error is logged and HTTP 500 is answered.
ChatError ==
    /\ hpc = "querying"
    /\ qpc = "failed"
    /\ chat_response' = [status |-> 500, answer |-> <<>>, sources |-> <<>>,
                         session_id |-> ""]
    /\ hpc' = "error"
    /\ UNCHANGED <<request_session, session_id, conversation_history, log_before>>
    /\ UNCHANGED <<chunkVars, windowVars, collection, queryVars, chatVars, ingestVars,
                   promptVars, raceVars>>

-----------------------------------------------------------------------------
(* Retriever._build_context and Retriever._build_prompt *)

\* The most messages of a conversation history a prompt is built from.
MaxHistory == 2

\* The number of characters of a message a prompt keeps: "msg.content[:500]".
HistoryCut == 500

\* The roles of the messages of a history; the database stores any text.
HistoryRoles == {"user", "assistant", "system"}

\* The contents of the messages: a short one, one of exactly 500 characters,
\* one of 501 and one of 605 characters in six words.
HistoryContents ==
    {<<"message", SP, "1">>,
     <<"w100", "w100", "w100", "w100", "w100">>,
     <<"w100", "w100", "w100", "w100", "w100", "1">>,
     LBig}

HistoryMessages ==
    {[role |-> r, content |-> c, sources |-> <<>>, created_at |-> 0] :
        r \in HistoryRoles, c \in HistoryContents}

Histories == UNION {[1..n -> HistoryMessages] : n \in 0..MaxHistory}

\* "\n".join(parts), the parts being lists of characters.
RECURSIVE JoinCharLines(_)
JoinCharLines(parts) ==
    IF parts = <<>> THEN <<>>
    ELSE IF Len(parts) = 1 THEN parts[1]
    ELSE parts[1] \o Chars(<<NL>>) \o JoinCharLines(Tail(parts))

\* The whole content of a message, however long it is.
HistoryContentWhole(text) == Chars(text)

\* "msg.content[:500] if len(msg.content) > 500 else msg.content"
HistoryContent(text) ==
    IF StrLen(text) > HistoryCut THEN SubSeq(Chars(text), 1, HistoryCut)
    ELSE Chars(text)

\* Lines 110-125: the parts of the history, "Q: ..." for a message of the
\* user, "A: ..." for one of the assistant, nothing for another role.
RECURSIVE HistoryParts(_)
HistoryParts(history) ==
    IF history = <<>> THEN <<>>
    ELSE LET msg == Head(history)
             part == IF msg.role = "user"
                     THEN <<Chars(<<"Q:", SP>>) \o HistoryContent(msg.content)>>
                     ELSE IF msg.role = "assistant"
                     THEN <<Chars(<<"A:", SP>>) \o HistoryContent(msg.content)>>
                     ELSE <<>>
         IN  part \o HistoryParts(Tail(history))

\* The first line of the history block.
HistoryHeader == <<"PREVIOUS", SP, "CONVERSATION:">>

\* Lines 106-136: history_text.
HistoryText(history) ==
    LET history_parts == HistoryParts(history)
    IN  IF history # <<>> /\ history_parts # <<>>
        THEN Chars(<<NL, NL>> \o HistoryHeader \o <<NL>>)
                 \o JoinCharLines(history_parts) \o Chars(<<NL>>)
        ELSE <<>>

\* Lines 85-93: "[Source i: title]", the text and an empty line per chunk.
RECURSIVE ContextParts(_, _)
ContextParts(cs, i) ==
    IF cs = <<>> THEN <<>>
    ELSE <<<<"[Source", SP, ToString(i), ":", SP>> \o Head(cs).title \o <<"]">>,
           Head(cs).text, <<>>>> \o ContextParts(Tail(cs), i + 1)

build_context(cs) == JoinLines(ContextParts(cs, 1))

\* Lines 102-104: source_list.
SourceList(cs) ==
    JoinLines([k \in 1..Len(cs) |->
                  <<"-", SP>> \o cs[k].title \o <<SP, "(from", SP, cs[k].doc_path,
                                                  ")">>])

\* The instructions every prompt starts with, lines 138-148.
PromptInstructions ==
    <<"You are a helpful documentation assistant.", NL, NL,
      "IMPORTANT INSTRUCTIONS:", NL,
      "1. Use the previous conversation to understand context", NL,
      "2. you CAN refer to the conversation history", NL,
      "3. to 8.", NL>>

\* Lines 138-160: the prompt.
build_prompt(question, context, cs, history) ==
    Chars(PromptInstructions) \o HistoryText(history)
        \o Chars(<<NL, "CONTEXT FROM DOCUMENTATION:", NL>> \o context
                 \o <<NL, NL, "AVAILABLE SOURCES:", NL>> \o SourceList(cs)
                 \o <<NL, NL, "CURRENT QUESTION:", SP>> \o question
                 \o <<NL, NL, "ANSWER (cite documentation sources when using them):">>)

\* The chunks the prompts of this model are built on.
PromptChunks ==
    <<[doc_path |-> "a.md", title |-> <<"Test", SP, "Doc">>,
       text |-> TestDocMetadata, score |-> 6,
       metadata |-> [doc_path |-> "a.md", title |-> <<"Test", SP, "Doc">>]]>>

PromptInit ==
    /\ p_history \in Histories
    /\ prompt = <<>>
    /\ ppc = "call"

\* prompt = self._build_prompt(question, context, chunks, conversation_history)
BuildPromptText ==
    /\ ppc = "call"
    /\ prompt' = build_prompt(Question, build_context(PromptChunks),
                              PromptChunks, p_history)
    /\ ppc' = "done"
    /\ UNCHANGED p_history
    /\ UNCHANGED <<chunkVars, collection, queryVars, chatVars, ingestVars,
                   requestVars, windowVars, raceVars>>

\* No prompt being built.
PromptIdle ==
    /\ p_history = <<>>
    /\ prompt = <<>>
    /\ ppc = "off"

-----------------------------------------------------------------------------
(* Two chat requests served by one event loop *)

Requests == {1, 2}

\* Neither request has started.
RaceIdle ==
    /\ rpc = [r \in Requests |-> "off"]
    /\ r_session = [r \in Requests |-> ""]
    /\ r_seen = [r \in Requests |-> FALSE]
    /\ r_error = [r \in Requests |-> "none"]

\* Two requests that name a session, on a database without sessions.
RaceInit ==
    /\ rpc = [r \in Requests |-> "session_exists"]
    /\ r_session \in [Requests -> SessionIds]
    /\ r_seen = [r \in Requests |-> FALSE]
    /\ r_error = [r \in Requests |-> "none"]
    /\ sessions = {}
    /\ messages = <<>>
    /\ now \in 0..MaxTime
    /\ recent = NoRecent
    /\ db_error = "none"

\* Line 123: await chat_db.session_exists(session_id).
RaceSessionExists(r) ==
    /\ rpc[r] = "session_exists"
    /\ r_seen' = [r_seen EXCEPT ![r] = \E x \in sessions : x.id = r_session[r]]
    /\ rpc' = [rpc EXCEPT ![r] = IF r_seen'[r] THEN "get_recent_messages"
                                 ELSE "create_session"]
    /\ UNCHANGED <<r_session, r_error, chatVars>>
    /\ UNCHANGED <<chunkVars, collection, queryVars, ingestVars, requestVars,
                   windowVars, promptVars>>

\* Line 124: await chat_db.create_session(session_id), whose INSERT fails on
\* the primary key when the session exists; the error ends the request with
\* HTTP 500 (lines 185-187).
RaceCreateSession(r) ==
    /\ rpc[r] = "create_session"
    /\ IF \E x \in sessions : x.id = r_session[r]
       THEN /\ db_error' = "IntegrityError"
            /\ r_error' = [r_error EXCEPT ![r] = "IntegrityError"]
            /\ rpc' = [rpc EXCEPT ![r] = "error"]
            /\ UNCHANGED sessions
       ELSE /\ sessions' = sessions \cup
                  {[id |-> r_session[r], created_at |-> now, updated_at |-> now]}
            /\ db_error' = "none"
            /\ rpc' = [rpc EXCEPT ![r] = "get_recent_messages"]
            /\ UNCHANGED r_error
    /\ UNCHANGED <<r_session, r_seen, messages, now, recent>>
    /\ UNCHANGED <<chunkVars, collection, queryVars, ingestVars, requestVars,
                   windowVars, promptVars>>

\* Lines 129-131: await chat_db.get_recent_messages(session_id, limit).
RaceGetRecentMessages(r) ==
    /\ rpc[r] = "get_recent_messages"
    /\ \E ms \in RecentMessages(r_session[r], MaxHistoryMessages) :
          recent' = [session_id |-> r_session[r], limit |-> MaxHistoryMessages,
                     messages |-> ms]
    /\ rpc' = [rpc EXCEPT ![r] = "add_user_message"]
    /\ UNCHANGED <<r_session, r_seen, r_error, sessions, messages, now, db_error>>
    /\ UNCHANGED <<chunkVars, collection, queryVars, ingestVars, requestVars,
                   windowVars, promptVars>>

\* Line 145: await chat_db.add_message(session_id, "user", request.question).
RaceAddUserMessage(r) ==
    /\ rpc[r] = "add_user_message"
    /\ messages' = Append(messages,
                          MessageRow(messages, r_session[r], "user", Question, <<>>))
    /\ sessions' = Touched(sessions, r_session[r])
    /\ db_error' = "none"
    /\ rpc' = [rpc EXCEPT ![r] = "query"]
    /\ UNCHANGED <<r_session, r_seen, r_error, now, recent>>
    /\ UNCHANGED <<chunkVars, collection, queryVars, ingestVars, requestVars,
                   windowVars, promptVars>>

\* Lines 147-151 and 185-187: retriever.query on the empty index returns its
\* fixed answer, or raises, which ends the request with HTTP 500.
RaceQuery(r) ==
    /\ rpc[r] = "query"
    /\ \/ /\ rpc' = [rpc EXCEPT ![r] = "add_assistant_message"]
          /\ UNCHANGED r_error
       \/ /\ rpc' = [rpc EXCEPT ![r] = "error"]
          /\ r_error' = [r_error EXCEPT ![r] = "query"]
    /\ UNCHANGED <<r_session, r_seen, chatVars>>
    /\ UNCHANGED <<chunkVars, collection, queryVars, ingestVars, requestVars,
                   windowVars, promptVars>>

\* Lines 177-183: await chat_db.add_message(session_id, "assistant", ...) and
\* the ChatResponse.
RaceAddAssistantMessage(r) ==
    /\ rpc[r] = "add_assistant_message"
    /\ messages' = Append(messages,
                          MessageRow(messages, r_session[r], "assistant",
                                     NoInfoAnswer, <<>>))
    /\ sessions' = Touched(sessions, r_session[r])
    /\ db_error' = "none"
    /\ rpc' = [rpc EXCEPT ![r] = "responded"]
    /\ UNCHANGED <<r_session, r_seen, r_error, now, recent>>
    /\ UNCHANGED <<chunkVars, collection, queryVars, ingestVars, requestVars,
                   windowVars, promptVars>>

-----------------------------------------------------------------------------
(* Specifications *)

\* chunk_by_headers on one document.
ChunkerInit ==
    /\ ChunkInit /\ collection = {} /\ QueryIdle /\ ChatIdle /\ IngestIdle
    /\ RequestIdle /\ WindowIdle /\ PromptIdle /\ RaceIdle

\* One call of chunk_by_headers on a document.
SpecChunk == ChunkerInit /\ [][ChunkDocument]_vars

\* The collection a query runs on: empty, or holding the chunks of two files.
SampleCollection ==
    CollectionAfterAdd({}, ChunksOfFiles(<<FileA, FileB>>, DefaultChunkSize,
                                         DefaultChunkOverlap))

QueryInit ==
    /\ ChunkIdle /\ ChatIdle /\ IngestIdle /\ RequestIdle /\ WindowIdle
    /\ PromptIdle /\ RaceIdle
    /\ collection \in {{}, SampleCollection}
    /\ QueryStart

QueryNext ==
    \/ EmbedQuery
    \/ Search
    \/ ReturnNoResults
    \/ BuildPrompt
    \/ CreateProvider
    \/ Generate

\* One Retriever.query on a collection.
SpecQuery == QueryInit /\ [][QueryNext]_vars

ChatInit ==
    /\ ChunkIdle /\ collection = {} /\ QueryIdle /\ ChatIdle /\ IngestIdle
    /\ RequestIdle /\ WindowIdle /\ PromptIdle /\ RaceIdle

ChatNext ==
    \/ Tick
    \/ \E sid \in SessionIds : CreateSession(sid)
    \/ \E sid \in SessionIds, role \in Roles :
          AddMessage(sid, role, ContentOf(Len(messages) + 1), <<>>)
    \/ \E sid \in SessionIds, limit \in Limits : GetRecentMessages(sid, limit)

\* The operations of ChatDatabase, one after another.
SpecChat == ChatInit /\ [][ChatNext]_vars

IngestInit ==
    /\ content = <<>> /\ doc_path = "" /\ title = <<>>
    /\ chunks = <<>> /\ cpc = "off"
    /\ \E cfg \in Configs : chunk_size = cfg[1] /\ chunk_overlap = cfg[2]
    /\ collection = {}
    /\ QueryIdle /\ ChatIdle /\ IngestIdle /\ RequestIdle /\ WindowIdle
    /\ PromptIdle /\ RaceIdle

IngestNext ==
    \/ EditCorpus
    \/ IngestClear
    \/ IngestScan
    \/ EmbedChunk
    \/ IngestAdd

\* Runs of ingest_docs, the documentation folder changing between them.
SpecIngest == IngestInit /\ [][IngestNext]_vars

\* A document whose only chunk has exactly 200 characters.
FileF ==
    [path |-> "exact.md", title |-> <<"Test">>, content |-> <<"w100", SP, "w99">>,
     readable |-> TRUE, dot_name |-> FALSE, in_node_modules |-> FALSE]

\* The collection a chat request is answered on: empty, or holding chunks of
\* 61, 200 and more than 200 characters.
RequestCollection ==
    CollectionAfterAdd({}, ChunksOfFiles(<<FileB, FileF>>, DefaultChunkSize,
                                         DefaultChunkOverlap))

\* The tables a chat request finds: empty, or one session with one exchange.
PriorLogs ==
    {[sessions |-> {}, messages |-> <<>>],
     [sessions |-> {[id |-> "s1", created_at |-> 0, updated_at |-> 0]},
      messages |-> <<
         [id |-> 1, session_id |-> "s1", role |-> "user",
          content |-> ContentOf(1), sources |-> <<>>, created_at |-> 0],
         [id |-> 2, session_id |-> "s1", role |-> "assistant",
          content |-> ContentOf(2), sources |-> <<>>, created_at |-> 0]>>]}

RequestInit ==
    /\ ChunkIdle /\ IngestIdle /\ WindowIdle /\ PromptIdle /\ RaceIdle
    /\ collection \in {{}, RequestCollection}
    /\ qpc = "off"
    /\ model_key \in {"", "groq-llama3"}
    /\ groq_api_key \in {"", "gsk-key"}
    /\ store_outcome = "none"
    /\ retrieved_chunks = <<>>
    /\ provider = [class |-> "none", model_name |-> ""]
    /\ qresult = NoResult
    /\ qerror = "none"
    /\ calls = <<>>
    /\ \E log \in PriorLogs : sessions = log.sessions /\ messages = log.messages
    /\ now \in {0, 1}
    /\ recent = NoRecent
    /\ db_error = "none"
    /\ hpc = "ready"
    /\ request_session \in {"", "s1", "s2"}
    /\ session_id = ""
    /\ conversation_history = <<>>
    /\ chat_response = NoResponse
    /\ log_before = <<>>

RequestNext ==
    \/ ChatStart
    \/ QueryNext
    \/ ChatRespond
    \/ ChatError

\* One chat request, from the session test to the response.
SpecRequest == RequestInit /\ [][RequestNext]_vars

\* chunk_by_size alone, on every text and every pair (size, overlap).
SlidingInit ==
    /\ WindowInit
    /\ ChunkIdle /\ collection = {} /\ QueryIdle /\ ChatIdle /\ IngestIdle
    /\ RequestIdle /\ PromptIdle /\ RaceIdle

WindowNext == WindowSplit \/ WindowStep \/ WindowExit

SpecWindow == SlidingInit /\ [][WindowNext]_vars

\* _build_prompt alone, on every history.
PromptOnlyInit ==
    /\ PromptInit
    /\ ChunkIdle /\ collection = {} /\ QueryIdle /\ ChatIdle /\ IngestIdle
    /\ RequestIdle /\ WindowIdle /\ RaceIdle

SpecPrompt == PromptOnlyInit /\ [][BuildPromptText]_vars

-----------------------------------------------------------------------------
(* A chat request and a reindex request served by one event loop *)

\* An ingest_docs that gives the event loop back between two of its steps.
IngestYieldsBetweenSteps == TRUE

\* Whether ingest_docs has a suspension point between clear() and its return:
\* it holds no await, and clear, embed_chunks and add_chunks are plain calls.
IngestYields == FALSE

\* Whether Retriever.query has a suspension point between its first and its
\* last line: _embed_query, search and _generate_answer are plain calls.
QueryYields == FALSE

\* reindex() is running ingest_docs and has not given the event loop back.
ReindexHoldsLoop == ~IngestYields /\ ipc \in {"cleared", "embedding"}

\* chat() is running retriever.query and has not given the event loop back.
ChatHoldsLoop ==
    ~QueryYields /\ qpc \in {"search", "searched", "provider", "generate"}

\* chat() up to its await of add_message, resumed by the event loop.
ServeChatStart == ~ReindexHoldsLoop /\ ChatStart

\* chat() resumed after add_message: retriever.query, a step at a time.
ServeQuery == ~ReindexHoldsLoop /\ QueryNext

\* chat() after query: the response or the error.
ServeChatEnd == ~ReindexHoldsLoop /\ (ChatRespond \/ ChatError)

\* reindex(): ingest_docs, a step at a time.
ServeReindex ==
    /\ ~ChatHoldsLoop
    /\ IngestClear \/ IngestScan \/ EmbedChunk \/ IngestAdd

ServeInit ==
    /\ ChunkIdle /\ WindowIdle /\ PromptIdle /\ RaceIdle
    /\ collection \in {{}, RequestCollection}
    /\ qpc = "off"
    /\ model_key = ""
    /\ groq_api_key = ""
    /\ store_outcome = "none"
    /\ retrieved_chunks = <<>>
    /\ provider = [class |-> "none", model_name |-> ""]
    /\ qresult = NoResult
    /\ qerror = "none"
    /\ calls = <<>>
    /\ sessions = {} /\ messages = <<>>
    /\ now = 0
    /\ recent = NoRecent
    /\ db_error = "none"
    /\ hpc = "ready"
    /\ request_session \in {"", "s1"}
    /\ session_id = ""
    /\ conversation_history = <<>>
    /\ chat_response = NoResponse
    /\ log_before = <<>>
    /\ corpus \in {{FileB, FileF}, {FileE}}
    /\ docs_path_exists = TRUE
    /\ ipc = "idle"
    /\ all_chunks = <<>>
    /\ embedded = 0
    /\ ingest_result = NoCount
    /\ ierror = "none"
    /\ held_before = {}
    /\ rerun = FALSE

ServeNext == ServeChatStart \/ ServeQuery \/ ServeChatEnd \/ ServeReindex

\* One chat request and reindex requests, in every order the event loop
\* allows.
SpecServe == ServeInit /\ [][ServeNext]_vars

RaceOnlyInit ==
    /\ RaceInit
    /\ ChunkIdle /\ collection = {} /\ QueryIdle /\ IngestIdle /\ RequestIdle
    /\ WindowIdle /\ PromptIdle

RaceNext ==
    \E r \in Requests :
        \/ RaceSessionExists(r)
        \/ RaceCreateSession(r)
        \/ RaceGetRecentMessages(r)
        \/ RaceAddUserMessage(r)
        \/ RaceQuery(r)
        \/ RaceAddAssistantMessage(r)

\* Two chat requests, interleaved at every await of chat().
SpecRace == RaceOnlyInit /\ [][RaceNext]_vars

-----------------------------------------------------------------------------
(* The claims *)

ChunkIds(cs) == [k \in 1..Len(cs) |-> cs[k].id]

\* Whether re.split found a header in the document.
HasHeader(text) == Len(re_split_headers(text)) > 1

\* C1: a document shorter than the minimum chunk length yields no chunk,
\* whatever doc_path and title are.
C1_ShortDocumentYieldsNoChunk ==
    (cpc = "done" /\ StrLen(content) < MinChunkLen) => chunks = <<>>

\* C2: every chunk id is the hash of "{doc_path}:{n}" or "{doc_path}:{n}:{j}",
\* n being the number of chunks before it and j the index of the window in
\* its section: the ids depend on doc_path and position only, and the same
\* document under another title has the same ids.
C2_IdsFromPathAndPosition ==
    cpc = "done" =>
        /\ \A k \in 1..Len(chunks) :
              \/ chunks[k].id = md5_hexdigest(ChunkKey(doc_path, k - 1))
              \/ \E j \in 0..(k - 1) :
                    /\ chunks[k].id =
                           md5_hexdigest(SubChunkKey(doc_path, k - 1, j))
                    /\ j > 0 => chunks[k - 1].id =
                           md5_hexdigest(SubChunkKey(doc_path, k - 2, j - 1))
        /\ \A nm \in DocNames :
              ChunkIds(chunk_by_headers(content, doc_path, nm[2],
                                        chunk_size, chunk_overlap))
                  = ChunkIds(chunks)

\* C2's case: a leading chunk followed by the windows of a re-split section.
C2_Witness ==
    /\ cpc = "done"
    /\ Len(chunks) >= 3
    /\ chunks[1].id = md5_hexdigest(ChunkKey(doc_path, 0))
    /\ \E k \in 2..Len(chunks) :
          chunks[k].id = md5_hexdigest(SubChunkKey(doc_path, k - 1, 1))

\* C3: the document of test_chunk_by_headers ("# Main Title", "## Section 1",
\* "## Section 2", each with a sentence under it) yields chunks, one at least
\* with "Section 1" in its title and one at least with "Section 2".
C3_HeaderPreservation ==
    (cpc = "done" /\ content = TestDocHeaders) =>
        /\ chunks # <<>>
        /\ \E k \in 1..Len(chunks) :
              Contains(chunks[k].title, <<"Section", SP, "1">>)
        /\ \E k \in 1..Len(chunks) :
              Contains(chunks[k].title, <<"Section", SP, "2">>)

\* C7: in a document with a header, no chunk is larger than the configured
\* chunk size, counted in characters or, at the least, in words.
C7_MaximumSize ==
    (cpc = "done" /\ HasHeader(content)) =>
        \A k \in 1..Len(chunks) :
            \/ StrLen(chunks[k].text) <= chunk_size
            \/ Len(Split(chunks[k].text)) <= chunk_size

\* C8: in a document with a header, every chunk is longer than the minimum
\* length of 50 characters.
C8_MinimumLengthOnHeaderPath ==
    (cpc = "done" /\ HasHeader(content)) =>
        \A k \in 1..Len(chunks) : StrLen(chunks[k].text) > MinChunkLen

\* C4: every relevance score search assigns lies in [0.0, 1.0].
C4_ScoreBounds ==
    \A k \in 1..Len(retrieved_chunks) :
        retrieved_chunks[k].score >= 0 /\ retrieved_chunks[k].score <= Unit

GeneratorCalls == {"_build_context", "_build_prompt", "create_provider", "generate"}

\* C5: on an empty index or a query without match, search returns the empty
\* list without raising, and query returns the fixed answer with no chunk,
\* having built no prompt, created no provider and called no generator.
C5_EmptyRetrievalFixedAnswer ==
    /\ (qpc # "start" /\ qpc # "search"
            /\ store_outcome \in {"empty_index", "no_matches"}) =>
          /\ retrieved_chunks = <<>>
          /\ qerror = "none"
          /\ qpc \in {"searched", "done"}
          /\ \A k \in 1..Len(calls) : calls[k] \notin GeneratorCalls
    /\ (qpc = "done" /\ retrieved_chunks = <<>>) =>
          /\ qresult.answer = NoInfoAnswer
          /\ qresult.chunks = <<>>
          /\ \A k \in 1..Len(calls) : calls[k] \notin GeneratorCalls

\* C5's case: a query answered on a collection whose query matched nothing.
C5_Witness ==
    /\ qpc = "done"
    /\ store_outcome = "no_matches"
    /\ collection # {}
    /\ qresult.answer = NoInfoAnswer

\* The messages of a session, oldest first, as get_recent_messages builds them.
SessionMessages(sid) ==
    LET rows == SessionRows(sid)
    IN  [k \in 1..Len(rows) |-> ChatMessage(rows[k])]

\* C6: get_recent_messages(session, N) returns the min(N, total) messages
\* appended last to the session, in the order they were appended.
C6_RecentMessagesAreTheLastAppended ==
    recent # NoRecent =>
        LET all == SessionMessages(recent.session_id)
            n == IF Len(all) < recent.limit THEN Len(all) ELSE recent.limit
        IN  recent.messages = SubSeq(all, Len(all) - n + 1, Len(all))

\* The chunks ingest_docs makes of the files, embedded, as records of the store.
ExpectedRecords ==
    LET cs == ChunksOfFiles(CHOOSE o \in Orderings(corpus) : TRUE,
                            chunk_size, chunk_overlap)
    IN  {StoreRecord([c EXCEPT !.embedding = EmbeddingOf(c.text)]) :
            c \in SeqToSet(cs)}

Ids(records) == {r.id : r \in records}

\* C9: after a run of ingest_docs that returned, the ids in the store are the
\* ids of the chunks of the current files and no other, the count returned is
\* count(), and a run on unchanged files leaves the store as it was.
C9_FullReindex ==
    ipc = "returned" =>
        /\ Ids(collection) = Ids(ExpectedRecords)
        /\ collection = ExpectedRecords
        /\ ingest_result = Count(collection)
        /\ rerun => collection = held_before

\* C9's case: a run that returned with chunks in the store, after a change of
\* the files that took chunks of the run before out of it.
C9_Witness ==
    /\ ipc = "returned"
    /\ collection # {}
    /\ \E r \in held_before : r.id \notin Ids(collection)

C11_MissingPathKeepsIndex ==
    (ipc = "raised" /\ ierror = "ValueError") => collection = held_before

\* C12 as stated: a run on an existing path that finds no chunk ends with an
\* error, not with a result.
C12_NoChunksIsAnError ==
    (ipc \in {"returned", "raised"} /\ docs_path_exists /\ all_chunks = <<>>) =>
        ipc = "raised" /\ ierror # "none"

\* C12 as amended: a run on an existing path that finds no chunk returns 0
\* without an error, and leaves the store empty; a run on an existing path
\* raises only when it has chunks.
C12_NoChunksReturnsZero ==
    /\ (ipc \in {"returned", "raised", "embedding"} /\ docs_path_exists
            /\ all_chunks = <<>>) =>
          /\ ipc = "returned"
          /\ ingest_result = 0
          /\ ierror = "none"
          /\ collection = {}
    /\ (ipc = "returned" /\ ingest_result = 0) => all_chunks = <<>>

\* C12's case: a run that returned 0 on files of which none gave a chunk, the
\* store holding chunks before it.
C12_Witness ==
    /\ ipc = "returned"
    /\ ingest_result = 0
    /\ corpus # {}
    /\ held_before # {}
    /\ collection = {}

\* C13: a failure of a call to the store during retrieval, of the emptiness
\* test or of the query, is not propagated: search returns the empty list and
\* query returns the fixed answer.
C13_StoreFailureDegrades ==
    store_outcome \in {"count_raises", "query_raises"} =>
        /\ qpc # "failed"
        /\ qerror = "none"
        /\ retrieved_chunks = <<>>
        /\ qpc = "done" => qresult.answer = NoInfoAnswer

\* Whether create_provider has been called in the query.
ProviderCreated == \E k \in 1..Len(calls) : calls[k] = "create_provider"

\* C14: for a model_key that is absent, empty or not in AVAILABLE_MODELS,
\* create_provider does not raise and returns the default Gemini provider.
C14_UnknownKeyFallsBack ==
    (ProviderCreated /\ (model_key = "" \/ model_key \notin DOMAIN AvailableModels))
        => /\ provider = GeminiProvider("")
           /\ qerror # "create_provider"

\* C14's case: a provider was created for a key the factory does not know.
C14_Witness ==
    /\ ProviderCreated
    /\ model_key = "gpt-4"
    /\ qpc = "generate"

\* C15: for a key in AVAILABLE_MODELS whose provider cannot be built, whatever
\* the error of its constructor, create_provider does not raise and gives a
\* provider.
C15_UnavailableBackendFallsBack ==
    (ProviderCreated /\ model_key \in DOMAIN AvailableModels) =>
        /\ qerror # "create_provider"
        /\ provider.class \in {"GeminiProvider", "GroqProvider"}

\* Whether generate was called and query returned.
Generated == qpc = "done" /\ \E k \in 1..Len(calls) : calls[k] = "generate"

\* C16: generate never returns an empty answer: a query that called the
\* generator and returned has an answer that is not empty.
C16_NoEmptyAnswer == Generated => qresult.answer # <<>>

\* C17: a chat request that fails at the embedding call, the store query or
\* the generation call leaves the message log of its session as it found it.
C17_FailedRequestLeavesLog ==
    hpc = "error" =>
        SessionRows(session_id) =
            SelectSeq(log_before, LAMBDA row : row.session_id = session_id)

\* C18: the response of a chat request that succeeded has one source for each
\* retrieved chunk, in the order of retrieval, with the chunk's doc_path,
\* title and score; its snippet is the chunk text when the text has at most
\* 200 characters, and the first 200 characters followed by "..." otherwise.
C18_SourcesAndSnippets ==
    hpc = "responded" =>
        /\ chat_response.status = 200
        /\ Len(chat_response.sources) = Len(retrieved_chunks)
        /\ \A i \in 1..Len(retrieved_chunks) :
              LET chunk == retrieved_chunks[i]
                  source == chat_response.sources[i]
                  text == Chars(chunk.text)
              IN  /\ source.doc_path = chunk.doc_path
                  /\ source.title = chunk.title
                  /\ source.score = chunk.score
                  /\ IF Len(text) <= 200 THEN source.snippet = text
                     ELSE /\ Len(source.snippet) = 203
                          /\ \A k \in 1..200 : source.snippet[k] = text[k]
                          /\ \A k \in 201..203 : source.snippet[k] = <<".", 1>>

\* C18's case: a response with sources of a chunk of more than 200 characters,
\* of a chunk of exactly 200 and of a shorter one.
C18_Witness ==
    /\ hpc = "responded"
    /\ \E i \in 1..Len(retrieved_chunks) : StrLen(retrieved_chunks[i].text) > 200
    /\ \E i \in 1..Len(retrieved_chunks) : StrLen(retrieved_chunks[i].text) = 200
    /\ \E i \in 1..Len(retrieved_chunks) : StrLen(retrieved_chunks[i].text) < 200
    /\ Len(chat_response.sources) = 3

\* Whether a text starts with another.
StartsWith(text, prefix) ==
    Len(text) >= Len(prefix) /\ SubSeq(text, 1, Len(prefix)) = prefix

\* The documents made of one header line and, under it, a body of plain text
\* longer than the minimum length.
HeaderAndBodyDocs ==
    {TestDocMetadata}
    \cup {JoinLines(<<h, b>>) : h \in {LHeader1, LHeader2}, b \in {LBody, LBig}}
    \cup {JoinLines(<<h, LBlank, b>>) : h \in {LHeader1, LHeader2},
                                        b \in {LBody, LBig}}

\* C19: every chunk of chunk_by_headers(content, doc_path, title) has the
\* doc_path of the call, a title that starts with the title of the call and a
\* metadata with the key "section"; a document of one header line and a body
\* longer than the minimum length gives one chunk at least.
C19_ChunkMetadata ==
    cpc = "done" =>
        /\ \A k \in 1..Len(chunks) :
              /\ chunks[k].doc_path = doc_path
              /\ StartsWith(chunks[k].title, title)
              /\ "section" \in DOMAIN chunks[k].metadata
        /\ content \in HeaderAndBodyDocs => Len(chunks) >= 1

\* C19's case: a document that gave a chunk of its leading text and a chunk of
\* a section.
C19_Witness ==
    /\ cpc = "done"
    /\ \E k \in 1..Len(chunks) :
          chunks[k].title = title /\ chunks[k].metadata.section = title
    /\ \E k \in 1..Len(chunks) :
          chunks[k].title # title /\ chunks[k].metadata.section # title

\* Whether a line that is a header of level 1 to 3 starts at s[i]: one to three
\* "#", a space, and text before the end of the line.
IsHeaderLineAt(s, i) ==
    LET h == RunLen(s, i, {HASH})
        e == IF NextNl(s, i) = 0 THEN Len(s) + 1 ELSE NextNl(s, i)
    IN  /\ i = 1 \/ s[i - 1] = NL
        /\ h \in 1..3
        /\ i + h < e
        /\ s[i + h] = SP
        /\ \E j \in (i + h + 1)..(e - 1) : s[j] # SP

\* Where the header lines of level 1 to 3 of a text start.
HeaderLineStarts(s) == {i \in 1..Len(s) : IsHeaderLineAt(s, i)}

\* Where the delimiters re.split found start, from s[pos] on.
RECURSIVE DelimiterStarts(_, _)
DelimiterStarts(s, pos) ==
    LET m == NextHeader(s, pos)
    IN  IF m = 0 THEN {}
        ELSE {m + 1} \cup DelimiterStarts(s, HeaderEnd(s, m) + 1)

\* C20: the delimiters of the split are the lines of one to three "#", a space
\* and text, wherever they are in the document: on the first line, on the last
\* line without "\n" after it, or under another header line; a line of four
\* "#" or more is no delimiter.
C20_HeaderDetection ==
    cpc = "done" => DelimiterStarts(content, 1) = HeaderLineStarts(content)

\* The normalized texts of the header sections of a document, in order:
\* clean_markdown(f"{section_title}\n\n{section_content}") of lines 80-82.
SectionTexts(text) ==
    LET sections == re_split_headers(text)
    IN  [s \in 1..((Len(sections) - 1) \div 2) |->
            clean_markdown(StripHeaderMarks(Strip(sections[2 * s]))
                           \o <<NL, NL>> \o sections[2 * s + 1])]

\* Chunk k is the window j of a re-split section.
IsWindow(k, j) == chunks[k].id = md5_hexdigest(SubChunkKey(doc_path, k - 1, j))

\* Chunk k is a chunk emitted whole.
IsWhole(k) == chunks[k].id = md5_hexdigest(ChunkKey(doc_path, k - 1))

\* C21: a section is re-split into windows if and only if its normalized text
\* has more words than chunk_size; a section of chunk_size words or fewer
\* that passes the minimum length is emitted whole, as one chunk.
C21_ResplitIffMoreWords ==
    (cpc = "done" /\ HasHeader(content)) =>
        LET texts == SectionTexts(content)
        IN  /\ \A k \in 1..Len(chunks) :
                  IsWindow(k, 0) =>
                      \E s \in 1..Len(texts) :
                          /\ Len(Split(texts[s])) > chunk_size
                          /\ chunks[k].text =
                                 Join(SubSeq(Split(texts[s]), 1, chunk_size))
            /\ \A s \in 1..Len(texts) :
                  Len(Split(texts[s])) > chunk_size =>
                      \E k \in 1..Len(chunks) :
                          /\ IsWindow(k, 0)
                          /\ chunks[k].text =
                                 Join(SubSeq(Split(texts[s]), 1, chunk_size))
            /\ \A s \in 1..Len(texts) :
                  (Len(Split(texts[s])) <= chunk_size
                      /\ PassesMinLength(texts[s])) =>
                      \E k \in 1..Len(chunks) :
                          IsWhole(k) /\ chunks[k].text = texts[s]

AdditionalContent == <<"Additional", SP, "Content">>

\* The text after the last header of a document: the last element of the list
\* re.split returns.
TextAfterLastHeader(text) ==
    LET sections == re_split_headers(text) IN sections[Len(sections)]

\* The section title of the last header of a document with a header.
LastSectionTitle(text) ==
    LET sections == re_split_headers(text)
    IN  StripHeaderMarks(Strip(sections[Len(sections) - 1]))

\* The text after the last header is long enough for a chunk of its own.
LongTextAfterLastHeader(text) ==
    /\ Strip(TextAfterLastHeader(text)) # <<>>
    /\ PassesMinLength(clean_markdown(TextAfterLastHeader(text)))

C27_KeysPairwiseDistinct ==
    cpc = "done" =>
        /\ \A a, b \in 1..Len(chunks) : a # b => chunks[a].id # chunks[b].id
        /\ \A k \in 1..Len(chunks) :
              IsWhole(k) \/ \E j \in 0..(k - 1) : IsWindow(k, j)

\* C27's case: the windows of a re-split section, followed by the windows of
\* the next section.
C27_Witness ==
    /\ cpc = "done"
    /\ \E k \in 1..Len(chunks) :
          /\ k + 2 <= Len(chunks)
          /\ IsWindow(k, 0)
          /\ IsWindow(k + 1, 1)
          /\ \E m \in (k + 2)..Len(chunks) : IsWindow(m, 0)

\* The words of window k of the run, k counted from 1.
WindowWords(k) == Split(w_chunks[k])

\* C23: for size > overlap >= 0 the windows chunk_by_size returns are runs of
\* the whitespace-separated words of the text, joined by single spaces:
\* window k (from 0) starts at word k * (size - overlap) and has size words
\* or, the last one, the words up to the last word of the text; two
\* consecutive windows share exactly overlap words; the windows cover the
\* words in order; and a text without words has no window.
C23_SlidingWindows ==
    (wpc = "done" /\ w_size > w_overlap) =>
        LET words == Split(w_text)
            n == Len(words)
            stride == w_size - w_overlap
            K == Len(w_chunks)
        IN  /\ w_words = words
            /\ n = 0 <=> K = 0
            /\ \A k \in 1..K :
                  /\ w_chunks[k] =
                         Join(SubSeq(words, (k - 1) * stride + 1,
                                     Min((k - 1) * stride + w_size, n)))
                  /\ Len(WindowWords(k)) <= w_size
                  /\ Len(WindowWords(k)) >= 1
                  /\ k < K => Len(WindowWords(k)) = w_size
            /\ \A k \in 1..(K - 1) :
                  /\ Len(WindowWords(k + 1)) > w_overlap
                  /\ SubSeq(WindowWords(k), stride + 1, w_size)
                         = SubSeq(WindowWords(k + 1), 1, w_overlap)
                  /\ \A a \in 1..stride, b \in 1..Len(WindowWords(k + 1)) :
                         WindowWords(k)[a] # WindowWords(k + 1)[b]
            /\ K > 0 =>
                  WindowWords(K)[Len(WindowWords(K))] = words[n]
            /\ \A i \in 1..n : \E k \in 1..K, a \in 1..w_size :
                  /\ a <= Len(WindowWords(k))
                  /\ WindowWords(k)[a] = words[i]
                  /\ i = (k - 1) * stride + a

\* C23's case: three windows or more that overlap, the last one shorter than
\* size.
C23_Witness ==
    /\ wpc = "done"
    /\ w_size > w_overlap
    /\ w_overlap > 0
    /\ Len(w_chunks) >= 3
    /\ Len(WindowWords(Len(w_chunks))) < w_size

\* C26: on every iteration of the loop of chunk_by_size that does not end the
\* loop, start strictly increases, whatever size >= 1 and overlap >= 0 are, so
\* that the loop terminates.
C26_StartStrictlyIncreases ==
    [][(wpc = "loop" /\ wpc' = "loop") => w_start' > w_start]_vars

\* C28: once a run of ingest_docs is past clear(), and when it has returned or
\* raised, the store holds no chunk or the complete set of the chunks of the
\* current files, never a part of it; it holds chunks only when the run has
\* returned.
C28_AllOrNothing ==
    ipc \in {"cleared", "embedding", "returned", "raised"} =>
        /\ collection = {} \/ collection = ExpectedRecords
        /\ collection # {} => ipc = "returned"

\* C28's case: a run on a store that held chunks, which raised on the
\* embedding of a chunk after another chunk had been embedded.
C28_Witness ==
    /\ ipc = "raised"
    /\ ierror = "embed_content"
    /\ embedded >= 1
    /\ Len(all_chunks) >= 2
    /\ held_before # {}
    /\ collection = {}

\* The messages of a history that have the role "user" or "assistant".
RenderedMessages(history) ==
    SelectSeq(history, LAMBDA msg : msg.role \in {"user", "assistant"})

\* "Q: " or "A: " and the first 500 characters of the content of a message.
RenderedLine(msg) ==
    Chars(<<IF msg.role = "user" THEN "Q:" ELSE "A:", SP>>)
        \o SubSeq(Chars(msg.content), 1, Min(HistoryCut, StrLen(msg.content)))

\* The characters of the prompt between the instructions and the context.
PromptHistoryBlock ==
    LET tail == Chars(<<NL, "CONTEXT FROM DOCUMENTATION:", NL>>)
        first == Len(Chars(PromptInstructions)) + 1
        last == CHOOSE k \in first..Len(prompt) :
                    /\ SubSeq(prompt, k, k + Len(tail) - 1) = tail
                    /\ \A j \in first..(k - 1) :
                          SubSeq(prompt, j, j + Len(tail) - 1) # tail
    IN  SubSeq(prompt, first, last - 1)

\* C24: the prompt renders the messages of the history whose role is "user"
\* or "assistant", and no other, in their order, one line each, as "Q: " or
\* "A: " followed by the first 500 characters of the content, under the line
\* "PREVIOUS CONVERSATION:"; the block is absent if and only if no message is
\* rendered.
C24_HistoryBlock ==
    ppc = "done" =>
        LET rendered == RenderedMessages(p_history)
            lines == [k \in 1..Len(rendered) |-> RenderedLine(rendered[k])]
        IN  /\ Contains(prompt, Chars(HistoryHeader)) <=> rendered # <<>>
            /\ rendered = <<>> => PromptHistoryBlock = <<>>
            /\ rendered # <<>> =>
                  PromptHistoryBlock =
                      Chars(<<NL, NL>> \o HistoryHeader \o <<NL>>)
                          \o JoinCharLines(lines) \o Chars(<<NL>>)

\* C24's case: a prompt built from a history with a message of another role
\* and a message of the user longer than 500 characters.
C24_Witness ==
    /\ ppc = "done"
    /\ \E k \in 1..Len(p_history) : p_history[k].role = "system"
    /\ \E k \in 1..Len(p_history) :
          /\ p_history[k].role = "user"
          /\ StrLen(p_history[k].content) > HistoryCut
    /\ Contains(prompt, Chars(HistoryHeader))

\* C25: the search of a chat request never runs while a reindex is between
\* its clear() and its return, whatever the order in which the event loop
\* runs the two requests.
C25_SearchNeverSeesClearedIndex ==
    [][(qpc = "search" /\ qpc' # "search") =>
           ipc \notin {"cleared", "embedding"}]_vars

\* C25's case: a chat request whose search found chunks in a store that was
\* empty before a reindex filled it.
C25_Witness ==
    /\ hpc = "querying"
    /\ store_outcome = "hits"
    /\ ipc = "returned"
    /\ held_before = {}
    /\ collection # {}

\* The messages of a role in a session.
RoleMessages(sid, role) ==
    {k \in 1..Len(messages) :
        messages[k].session_id = sid /\ messages[k].role = role}

\* C29: when two chat requests name the same session, unknown to the database,
\* and the query of neither raises, both end with a response, the session
\* exists once, and it holds the user message and the assistant message of
\* each.
C29_SameNewSessionBothSucceed ==
    (/\ r_session[1] = r_session[2]
     /\ \A r \in Requests : rpc[r] \in {"responded", "error"}
     /\ \A r \in Requests : r_error[r] # "query") =>
        /\ \A r \in Requests : rpc[r] = "responded"
        /\ Cardinality({x \in sessions : x.id = r_session[1]}) = 1
        /\ Cardinality(RoleMessages(r_session[1], "user")) = 2
        /\ Cardinality(RoleMessages(r_session[1], "assistant")) = 2

=============================================================================
